---- MODULE Spec2Model ----
(***************************************************************************)
(* PodAgent OS: the pipeline state machine (pipeline/orchestrator.py), the *)
(* gate commands (pipeline/gate.py) and the manifest they persist          *)
(* (models/manifest.py): Spec and LiveSpec.  AtomicSpec follows one write   *)
(* of the manifest file step by step (utils/io.py), and EditSpec the       *)
(* editing module's run from the cut proposals through the budget cap to   *)
(* the EDL (editing/module.py, editing/edl_builder.py).                    *)
(*                                                                         *)
(* Abstractions.  A timestamp is "null" or "ts" (datetime.now() stamped).  *)
(* An exception is its type name and the length of str(e).  The files on   *)
(* disk are the artifact paths that some validate_inputs tests.  Optional  *)
(* fields use the string "null" for None.                                  *)
(* Times of the editing run are whole seconds, confidences hundredths.     *)
(***************************************************************************)
EXTENDS Integers, Naturals, Sequences, FiniteSets, TLC

\* ---------------------------------------------------------------- bounds
\* longest exception message the stage modules are made to raise
MaxMsgLen == 1000
\* a module that raises does so within its first MaxFailPoint checkpoints,
\* or after its last one
MaxFailPoint == 1
\* run is invoked with --from at most MaxFromRuns times
MaxFromRuns == 1

\* write_atomic: how many saves are followed, and into how many pieces the
\* dump of one manifest can be split
MaxSaves == 3
MaxChunks == 2

\* the editing run: times are whole seconds up to MaxTime, and the detectors
\* make at most MaxCuts proposals
MaxTime == 3
MaxCuts == 2

\* ------------------------------------------------------- program constants
\* orchestrator.py:132   str(e)[:500]
TruncLen == 500

STAGE_ORDER == <<"ingestion", "editing", "mixing", "mastering">>

Stages == {STAGE_ORDER[i] : i \in 1..Len(STAGE_ORDER)}

\* STAGE_ORDER.index(name), 1-based
StageIndex(name) == CHOOSE i \in 1..Len(STAGE_ORDER) : STAGE_ORDER[i] = name

Min(a, b) == IF a <= b THEN a ELSE b

\* ------------------------------------------------------------ the manifest
NoError == [type |-> "null", message |-> 0, step |-> "null"]

\* StageStatus() with its field defaults
StageStatus ==
    [status              |-> "pending",
     started_at          |-> "null",
     completed_at        |-> "null",
     gate_approved       |-> "null",
     gate_approved_at    |-> "null",
     gate_notes          |-> "null",
     error               |-> NoError,
     last_completed_step |-> "null"]

\* Pipeline() with its field defaults
Pipeline ==
    [current_stage |-> "ingestion",
     stages        |-> [s \in Stages |-> StageStatus]]

get_stage(manifest, name) == manifest.stages[name]

\* ------------------------------------------------------- the stage modules
\* the checkpoints each module's run records in last_completed_step, in order
Steps ==
    [ingestion |-> <<"validate", "transcribe", "diarize", "align", "merge", "context">>,
     editing   |-> <<"load", "filler", "silence", "tangent", "structure", "chapters", "show_notes">>,
     mixing    |-> <<"timeline", "extract", "processing", "crossfade", "music">>,
     mastering |-> <<"validate", "loudness", "encode", "archive", "metadata", "show_notes", "verify">>]

\* the artifacts some validate_inputs looks for, in the order the producing
\* module writes them (all after its last checkpoint)
Outputs ==
    [ingestion |-> <<"transcript", "alignment_map">>,
     editing   |-> <<"edl_sidecar">>,
     mixing    |-> <<"mixed_audio">>,
     mastering |-> <<>>]

\* the artifacts written when the first n outputs of a stage are on disk
Written(stage, n) == {Outputs[stage][i] : i \in 1..n}

\* validate_inputs(project_root, manifest) of the four modules: TRUE when the
\* returned error list is empty.  tracks: the manifest names participants
\* and every participant's track file exists.
validate_inputs(stage, fs, tracks) ==
    CASE stage = "ingestion" -> tracks
      [] stage = "editing"   -> "transcript" \in fs /\ "alignment_map" \in fs
      [] stage = "mixing"    -> "edl_sidecar" \in fs /\ "alignment_map" \in fs /\ tracks
      [] stage = "mastering" -> "mixed_audio" \in fs

\* the exceptions a module's run is made to raise
Exceptions ==
    {[type |-> "FileNotFoundError", len |-> TruncLen - 1],
     [type |-> "RuntimeError",      len |-> TruncLen],
     [type |-> "RuntimeError",      len |-> TruncLen + 1],
     [type |-> "RuntimeError",      len |-> MaxMsgLen]}
NoExc == [type |-> "null", len |-> 0]

\* notes given to `gate approve|reject --notes`
Notes == {"null", "", "too aggressive", "looks good"}

\* ------------------------------------------------- manifest transformations
\* _next_stage that returns STAGE_ORDER[idx] instead of STAGE_ORDER[idx + 1]
_next_stage_same(current) ==
    LET idx == StageIndex(current)
    IN  IF idx < Len(STAGE_ORDER) THEN STAGE_ORDER[idx] ELSE "complete"

\* orchestrator.py:164-169 (0-based idx + 1 < len, here 1-based)
_next_stage(current) ==
    LET idx == StageIndex(current)
    IN  IF idx < Len(STAGE_ORDER) THEN STAGE_ORDER[idx + 1] ELSE "complete"

\* IsApproved with the gate flag compared against the wrong value
IsApprovedWrongFlag(stage) == stage.status = "completed" /\ stage.gate_approved = "false"

\* orchestrator.py:84
IsApproved(stage) == stage.status = "completed" /\ stage.gate_approved = "true"

\* IsPendingGate without the test of the status
IsPendingGateAnyStatus(stage) == stage.gate_approved = "null"

\* orchestrator.py:89, gate.py:244, gate.py:268
IsPendingGate(stage) == stage.status = "completed" /\ stage.gate_approved = "null"

\* MarkInProgress without `stage.error = None`
MarkInProgressKeepsError(manifest, name) ==
    [manifest EXCEPT !.stages[name].status     = "in_progress",
                     !.stages[name].started_at = "ts",
                     !.current_stage           = name]

\* orchestrator.py:117-121
MarkInProgress(manifest, name) ==
    [manifest EXCEPT !.stages[name].status     = "in_progress",
                     !.stages[name].started_at = "ts",
                     !.stages[name].error      = NoError,
                     !.current_stage           = name]

\* the module's run records its checkpoints: after n of them
\* last_completed_step is the n-th, after none it is what it was
Checkpoint(manifest, name, n) ==
    IF n = 0 THEN manifest
    ELSE [manifest EXCEPT !.stages[name].last_completed_step = Steps[name][n]]

\* MarkFailed with str(e) stored whole
MarkFailedUncut(manifest, name, e) ==
    [manifest EXCEPT !.stages[name].status = "failed",
                     !.stages[name].error  =
                         [type    |-> e.type,
                          message |-> e.len,
                          step    |-> manifest.stages[name].last_completed_step]]

\* orchestrator.py:129-134
MarkFailed(manifest, name, e) ==
    [manifest EXCEPT !.stages[name].status = "failed",
                     !.stages[name].error  =
                         [type    |-> e.type,
                          message |-> Min(e.len, TruncLen),
                          step    |-> manifest.stages[name].last_completed_step]]

\* MarkCompleted that also moves current_stage on, as an approval does
MarkCompletedAdvances(manifest, name) ==
    [manifest EXCEPT !.stages[name].status       = "completed",
                     !.stages[name].completed_at = "ts",
                     !.current_stage             = _next_stage(name)]

\* orchestrator.py:139-141
MarkCompleted(manifest, name) ==
    [manifest EXCEPT !.stages[name].status       = "completed",
                     !.stages[name].completed_at = "ts"]

\* orchestrator.py:95-97 and 152-154
GateApproved(manifest, name) ==
    [manifest EXCEPT !.stages[name].gate_approved    = "true",
                     !.stages[name].gate_approved_at = "ts",
                     !.current_stage                 = _next_stage(name)]

\* `if notes: stage.gate_notes = notes` (None and "" are falsy)
WithNotes(stage, notes) ==
    IF notes \notin {"null", ""} THEN [stage EXCEPT !.gate_notes = notes] ELSE stage

\* the loop of approve_gate, reject_gate and show_gate_status: the first stage
\* in the fixed order with status completed and gate_approved None
HasPendingGate(manifest) == \E s \in Stages : IsPendingGate(manifest.stages[s])

FirstPendingGate(manifest) ==
    STAGE_ORDER[CHOOSE i \in 1..Len(STAGE_ORDER) :
        /\ IsPendingGate(manifest.stages[STAGE_ORDER[i]])
        /\ \A j \in 1..(i - 1) : ~IsPendingGate(manifest.stages[STAGE_ORDER[j]])]

\* approve that leaves current_stage on the approved stage
approve_keeps_current_stage(manifest, name, notes) ==
    LET st == WithNotes([manifest.stages[name] EXCEPT !.gate_approved    = "true",
                                                     !.gate_approved_at = "ts"], notes)
    IN  [manifest EXCEPT !.stages[name] = st]

\* gate.py:245-252
approve(manifest, name, notes) ==
    LET st == WithNotes([manifest.stages[name] EXCEPT !.gate_approved    = "true",
                                                     !.gate_approved_at = "ts"], notes)
    IN  [manifest EXCEPT !.stages[name] = st, !.current_stage = _next_stage(name)]

\* reject without `stage.completed_at = None`
reject_keeps_completed_at(manifest, name, notes) ==
    LET st == WithNotes([manifest.stages[name] EXCEPT !.status        = "pending",
                                                     !.started_at    = "null",
                                                     !.gate_approved = "null"], notes)
    IN  [manifest EXCEPT !.stages[name] = st, !.current_stage = name]

\* gate.py:269-275
reject(manifest, name, notes) ==
    LET st == WithNotes([manifest.stages[name] EXCEPT !.status        = "pending",
                                                     !.started_at    = "null",
                                                     !.completed_at  = "null",
                                                     !.gate_approved = "null"], notes)
    IN  [manifest EXCEPT !.stages[name] = st, !.current_stage = name]

\* GateNotApproved that resets the stage the way reject_gate does
GateNotApprovedResets(manifest, name) == reject(manifest, name, "null")

\* orchestrator.py:101-104 and 156-159: nothing is assigned before the save
GateNotApproved(manifest, name) == manifest

\* ------------------------------------------------------------- the files
\* a file holding the first `written` of the `size` chunks of the data of the
\* save numbered `data` (0: the manifest that `podagent init` wrote)
File(data, size, written) == [data |-> data, size |-> size, written |-> written]

Complete(f) == f.written = f.size

NoRead == File(0, 0, 0)

\* no EDL built yet
NoEDL == [original_duration_seconds |-> 0, edited_duration_seconds |-> 0,
          time_removed_seconds |-> 0, edits |-> <<>>, transitions |-> <<>>]

\* ------------------------------------------------------------------- state
VARIABLES
    disk,        \* the manifest file: what _load_manifest would return
    mem,         \* the Manifest object of the running run_pipeline
    pc,          \* where run_pipeline is: idle (no process), loop (line 80),
                 \* gate_resume (93), run (127), except (129), returned (140),
                 \* gate_post (150)
    idx,         \* position of the for loop in STAGE_ORDER, 1-based
    exc,         \* the exception caught at line 128
    files,       \* the artifact files that exist under the project root
    outcome,     \* how the last command ended, or "running"
    fromRuns,    \* how many times run was invoked with a from_stage
    cooperative  \* the environment has stopped failing: inputs validate,
                 \* stage work succeeds, every presented gate is approved

\* write_atomic (utils/io.py) step by step, on a file system of inodes
VARIABLES
    inodes,      \* the files that exist, linked or not: what each holds
    path,        \* the inode the manifest path names
    tmp_path,    \* the inode of the writer's temporary file, 0 when none
    wpc,         \* where write_atomic is: idle, open (inside `with`, line 29),
                 \* closed (line 37, before the rename)
    saves,       \* how many write_atomic calls have been started
    rfd,         \* the inode a reader has opened, 0 when none
    lastRead     \* what the last read of the manifest path returned

ioVars == <<inodes, path, tmp_path, wpc, saves, rfd, lastRead>>

\* the editing module's run (editing/module.py) from the detectors' proposals
\* to the EDL
VARIABLES
    segments,        \* transcript.segments
    total_duration,  \* transcript.duration_seconds
    all_cuts,        \* the cut proposals, line 102
    edl,             \* what build_edl returned
    epc              \* where run is: load (line 48), detect (62-99), capped
                     \* (124), done (147)

\* the editing module's chapter step (editing/chapters.py)
VARIABLES
    topics,          \* context.topics; <<>> when there is no context document
    chapters         \* what generate_chapters returned

chapVars == <<topics, chapters>>

\* the mixing module's run up to the assembly (mixing/module.py:56-108)
VARIABLES
    regions,         \* what build_timeline returned
    ordered_paths,   \* the extracted regions handed to the assembly, line 105
    mpc              \* where the mixing run is: idle, timeline (69), assemble (108)

mixVars == <<regions, ordered_paths, mpc>>

edVars == <<segments, total_duration, all_cuts, edl, epc, chapVars, mixVars>>

vars == <<disk, mem, pc, idx, exc, files, outcome, fromRuns, cooperative,
          ioVars, edVars>>

\* the stage the loop is at
stage_name == STAGE_ORDER[idx]

\* how a command ended: kind, the type of the exception it raised, the stage
\* it was about (for a running run_pipeline: its from_stage) and, for the
\* gate commands, the notes it was given
Result(kind, type, stage, notes) ==
    [kind |-> kind, type |-> type, stage |-> stage, notes |-> notes]

Init ==
    /\ disk = Pipeline
    /\ mem = Pipeline
    /\ pc = "idle"
    /\ idx = 1
    /\ exc = NoExc
    /\ files = {}
    /\ outcome = Result("none", "null", "null", "null")
    /\ fromRuns = 0
    /\ cooperative = FALSE
    /\ inodes = <<File(0, 1, 1)>>
    /\ path = 1
    /\ tmp_path = 0
    /\ wpc = "idle"
    /\ saves = 0
    /\ rfd = 0
    /\ lastRead = NoRead
    /\ segments = <<>>
    /\ total_duration = 0
    /\ all_cuts = <<>>
    /\ edl = NoEDL
    /\ epc = "load"
    /\ topics = <<>>
    /\ chapters = <<>>
    /\ regions = <<>>
    /\ ordered_paths = <<>>
    /\ mpc = "idle"

\* the process ends (return, raise or kill): its Manifest object is gone
Exit(kind, type, stage, notes) ==
    /\ pc' = "idle"
    /\ idx' = 1
    /\ exc' = NoExc
    /\ mem' = disk'
    /\ outcome' = Result(kind, type, stage, notes)

\* ------------------------------------------------------------ run_pipeline
\* orchestrator.py:66-78, a known stage or none
RunPipeline(from_stage) ==
    /\ pc = "idle"
    /\ cooperative => from_stage = "null"
    /\ from_stage # "null" => fromRuns < MaxFromRuns
    /\ fromRuns' = IF from_stage = "null" THEN fromRuns ELSE fromRuns + 1
    /\ mem' = disk
    /\ idx' = IF from_stage = "null" THEN 1 ELSE StageIndex(from_stage)
    /\ pc' = "loop"
    /\ outcome' = Result("running", "null", from_stage, "null")
    /\ UNCHANGED <<disk, exc, files, cooperative, ioVars, edVars>>

\* orchestrator.py:75-76
RunPipelineUnknownStage ==
    /\ pc = "idle"
    /\ ~cooperative
    /\ UNCHANGED <<disk, files, fromRuns, cooperative, ioVars, edVars>>
    /\ Exit("raised", "ValueError", "null", "null")

\* LoopSkip that also passes over a failed stage whose last checkpoint is
\* recorded, as a driver resuming from checkpoints would
LoopSkipCheckpointed ==
    /\ pc = "loop" /\ idx <= Len(STAGE_ORDER)
    /\ \/ IsApproved(get_stage(mem, stage_name))
       \/ /\ get_stage(mem, stage_name).status = "failed"
          /\ get_stage(mem, stage_name).last_completed_step
                 = Steps[stage_name][Len(Steps[stage_name])]
    /\ idx' = idx + 1
    /\ UNCHANGED <<disk, mem, pc, exc, files, outcome, fromRuns, cooperative, ioVars, edVars>>

\* orchestrator.py:83-86
LoopSkip ==
    /\ pc = "loop" /\ idx <= Len(STAGE_ORDER)
    /\ IsApproved(get_stage(mem, stage_name))
    /\ idx' = idx + 1
    /\ UNCHANGED <<disk, mem, pc, exc, files, outcome, fromRuns, cooperative, ioVars, edVars>>

\* orchestrator.py:88-93
LoopPresentGate ==
    /\ pc = "loop" /\ idx <= Len(STAGE_ORDER)
    /\ ~IsApproved(get_stage(mem, stage_name))
    /\ IsPendingGate(get_stage(mem, stage_name))
    /\ pc' = "gate_resume"
    /\ UNCHANGED <<disk, mem, idx, exc, files, outcome, fromRuns, cooperative, ioVars, edVars>>

\* orchestrator.py:94-100 and 151-155: present_gate returned True
GateApprove ==
    /\ pc \in {"gate_resume", "gate_post"}
    /\ mem' = GateApproved(mem, stage_name)
    /\ disk' = mem'
    /\ pc' = "loop"
    /\ idx' = idx + 1
    /\ UNCHANGED <<exc, files, outcome, fromRuns, cooperative, ioVars, edVars>>

\* orchestrator.py:101-104 and 156-159: present_gate returned False
GateDecline ==
    /\ pc \in {"gate_resume", "gate_post"}
    /\ ~cooperative
    /\ disk' = GateNotApproved(mem, stage_name)
    /\ UNCHANGED <<files, fromRuns, cooperative, ioVars, edVars>>
    /\ Exit("paused", "null", stage_name, "null")

\* LoopValidateFails with the validation placed after lines 117-122: the
\* stage is marked in_progress and saved before the errors are raised
LoopValidateFailsStarted ==
    /\ pc = "loop" /\ idx <= Len(STAGE_ORDER)
    /\ ~IsApproved(get_stage(mem, stage_name))
    /\ ~IsPendingGate(get_stage(mem, stage_name))
    /\ \E tracks \in BOOLEAN :
          /\ cooperative => tracks
          /\ ~validate_inputs(stage_name, files, tracks)
    /\ disk' = MarkInProgress(mem, stage_name)
    /\ UNCHANGED <<files, fromRuns, cooperative, ioVars, edVars>>
    /\ Exit("input_validation_failed", "RuntimeError", stage_name, "null")

\* orchestrator.py:106-115: validate_inputs returned errors
LoopValidateFails ==
    /\ pc = "loop" /\ idx <= Len(STAGE_ORDER)
    /\ ~IsApproved(get_stage(mem, stage_name))
    /\ ~IsPendingGate(get_stage(mem, stage_name))
    /\ \E tracks \in BOOLEAN :
          /\ cooperative => tracks
          /\ ~validate_inputs(stage_name, files, tracks)
    /\ UNCHANGED <<disk, files, fromRuns, cooperative, ioVars, edVars>>
    /\ Exit("input_validation_failed", "RuntimeError", stage_name, "null")

\* orchestrator.py:106-124: inputs validate, the stage is marked and saved
LoopStartStage ==
    /\ pc = "loop" /\ idx <= Len(STAGE_ORDER)
    /\ ~IsApproved(get_stage(mem, stage_name))
    /\ ~IsPendingGate(get_stage(mem, stage_name))
    /\ \E tracks \in BOOLEAN :
          /\ cooperative => tracks
          /\ validate_inputs(stage_name, files, tracks)
    /\ mem' = MarkInProgress(mem, stage_name)
    /\ disk' = mem'
    /\ pc' = "run"
    /\ UNCHANGED <<idx, exc, files, outcome, fromRuns, cooperative, ioVars, edVars>>

\* orchestrator.py:127: module.run returns; all checkpoints and outputs done
ModuleReturns ==
    /\ pc = "run"
    /\ mem' = Checkpoint(mem, stage_name, Len(Steps[stage_name]))
    /\ files' = files \cup Written(stage_name, Len(Outputs[stage_name]))
    /\ pc' = "returned"
    /\ UNCHANGED <<disk, idx, exc, outcome, fromRuns, cooperative, ioVars, edVars>>

\* orchestrator.py:127-128: module.run raises e after n checkpoints; only
\* after the last checkpoint has it written any (w) of its outputs
ModuleRaises(e, n, w) ==
    /\ pc = "run"
    /\ ~cooperative
    /\ n <= MaxFailPoint \/ n = Len(Steps[stage_name])
    /\ w <= Len(Outputs[stage_name])
    /\ w > 0 => n = Len(Steps[stage_name])
    /\ mem' = Checkpoint(mem, stage_name, n)
    /\ files' = files \cup Written(stage_name, w)
    /\ exc' = e
    /\ pc' = "except"
    /\ UNCHANGED <<disk, idx, outcome, fromRuns, cooperative, ioVars, edVars>>

\* orchestrator.py:129-137
HandleException ==
    /\ pc = "except"
    /\ disk' = MarkFailed(mem, stage_name, exc)
    /\ UNCHANGED <<files, fromRuns, cooperative, ioVars, edVars>>
    /\ Exit("stage_failed", exc.type, stage_name, "null")

\* orchestrator.py:139-150
SaveCompleted ==
    /\ pc = "returned"
    /\ mem' = MarkCompleted(mem, stage_name)
    /\ disk' = mem'
    /\ pc' = "gate_post"
    /\ UNCHANGED <<idx, exc, files, outcome, fromRuns, cooperative, ioVars, edVars>>

\* orchestrator.py:161: the loop is exhausted
LoopEnd ==
    /\ pc = "loop" /\ idx > Len(STAGE_ORDER)
    /\ UNCHANGED <<disk, files, fromRuns, cooperative, ioVars, edVars>>
    /\ Exit("complete", "null", "null", "null")

\* the process is killed; during module.run it may have written w outputs
Crash(w) ==
    /\ pc # "idle"
    /\ ~cooperative
    /\ w > 0 => pc = "run" /\ w <= Len(Outputs[stage_name])
    /\ files' = IF w > 0 THEN files \cup Written(stage_name, w) ELSE files
    /\ UNCHANGED <<disk, fromRuns, cooperative, ioVars, edVars>>
    /\ Exit("killed", "null", "null", "null")

\* -------------------------------------------------------- the gate commands
\* gate.py:237-256
ApproveGate(notes) ==
    /\ pc = "idle"
    /\ HasPendingGate(disk)
    /\ disk' = approve(disk, FirstPendingGate(disk), notes)
    /\ UNCHANGED <<files, fromRuns, cooperative, ioVars, edVars>>
    /\ Exit("approved", "null", FirstPendingGate(disk), notes)

\* gate.py:258
ApproveGateNoGate ==
    /\ pc = "idle"
    /\ ~HasPendingGate(disk)
    /\ UNCHANGED <<disk, files, fromRuns, cooperative, ioVars, edVars>>
    /\ Exit("no_gate_pending", "RuntimeError", "null", "null")

\* gate.py:261-279
RejectGate(notes) ==
    /\ pc = "idle"
    /\ ~cooperative
    /\ HasPendingGate(disk)
    /\ disk' = reject(disk, FirstPendingGate(disk), notes)
    /\ UNCHANGED <<files, fromRuns, cooperative, ioVars, edVars>>
    /\ Exit("rejected", "null", FirstPendingGate(disk), notes)

\* gate.py:281
RejectGateNoGate ==
    /\ pc = "idle"
    /\ ~cooperative
    /\ ~HasPendingGate(disk)
    /\ UNCHANGED <<disk, files, fromRuns, cooperative, ioVars, edVars>>
    /\ Exit("no_gate_review", "RuntimeError", "null", "null")

\* ---------------------------------------------------------- the environment
\* from here on inputs validate, stage work succeeds, gates are approved and
\* run is invoked without from_stage
Cooperate ==
    /\ ~cooperative
    /\ cooperative' = TRUE
    /\ UNCHANGED <<disk, mem, pc, idx, exc, files, outcome, fromRuns, ioVars, edVars>>

\* the most checkpoints and the most outputs any module has
MaxCheckpoints == Len(Steps.editing)
MaxOutputs == Len(Outputs.ingestion)

PipelineStep ==
    \/ \E from_stage \in Stages \cup {"null"} : RunPipeline(from_stage)
    \/ LoopSkip
    \/ LoopPresentGate
    \/ GateApprove
    \/ LoopValidateFails
    \/ LoopStartStage
    \/ ModuleReturns
    \/ HandleException
    \/ SaveCompleted
    \/ LoopEnd

Next ==
    \/ PipelineStep
    \/ RunPipelineUnknownStage
    \/ GateDecline
    \/ \E e \in Exceptions :
         \E n \in 0..MaxCheckpoints :
           \E w \in 0..MaxOutputs : ModuleRaises(e, n, w)
    \/ \E w \in 0..MaxOutputs : Crash(w)
    \/ \E notes \in Notes : ApproveGate(notes)
    \/ ApproveGateNoGate
    \/ \E notes \in Notes : RejectGate(notes)
    \/ RejectGateNoGate
    \/ Cooperate

Spec == Init /\ [][Next]_vars

\* run is re-invoked for as long as it is not running, and a running
\* run_pipeline goes on to its next statement
LiveSpec == Init /\ [][Next]_vars /\ WF_vars(PipelineStep)

\* ------------------------------------------------------------ write_atomic
\* the pipeline and the editing run stand still while the file is written
IoFrame == UNCHANGED <<disk, mem, pc, idx, exc, files, outcome, fromRuns,
                       cooperative, edVars>>

\* io.py:23-28: NamedTemporaryFile(dir=path.parent, delete=False) creates an
\* empty file under a fresh name; `size` is how much the dump will write
CreateTemp(size) ==
    /\ wpc = "idle"
    /\ saves < MaxSaves
    /\ saves' = saves + 1
    /\ inodes' = Append(inodes, File(saves + 1, size, 0))
    /\ tmp_path' = Len(inodes) + 1
    /\ wpc' = "open"
    /\ UNCHANGED <<path, rfd, lastRead>>
    /\ IoFrame

\* io.py:29-34: the dump fills the buffer and the buffer is written out
Dump ==
    /\ wpc = "open"
    /\ inodes[tmp_path].written < inodes[tmp_path].size
    /\ inodes' = [inodes EXCEPT ![tmp_path].written = @ + 1]
    /\ UNCHANGED <<path, tmp_path, wpc, saves, rfd, lastRead>>
    /\ IoFrame

\* io.py:28-35: leaving `with` after the dump closes the file, which writes
\* out what is left in the buffer
CloseTemp ==
    /\ wpc = "open"
    /\ inodes' = [inodes EXCEPT ![tmp_path].written = inodes[tmp_path].size]
    /\ wpc' = "closed"
    /\ UNCHANGED <<path, tmp_path, saves, rfd, lastRead>>
    /\ IoFrame

\* Rename that runs inside `with`, before the file is closed
RenameUnclosed ==
    /\ wpc = "open"
    /\ path' = tmp_path
    /\ tmp_path' = 0
    /\ wpc' = "idle"
    /\ UNCHANGED <<inodes, saves, rfd, lastRead>>
    /\ IoFrame

\* io.py:37: tmp_path.rename(path) makes the name point at the new file in
\* one step; the old file lives on for whoever has it open
Rename ==
    /\ wpc = "closed"
    /\ path' = tmp_path
    /\ tmp_path' = 0
    /\ wpc' = "idle"
    /\ UNCHANGED <<inodes, saves, rfd, lastRead>>
    /\ IoFrame

\* the writer is killed, or the dump raises, anywhere in write_atomic: the
\* temporary file stays as it is (delete=False) and the rename never runs
WriterDies ==
    /\ wpc # "idle"
    /\ tmp_path' = 0
    /\ wpc' = "idle"
    /\ UNCHANGED <<inodes, path, saves, rfd, lastRead>>
    /\ IoFrame

\* io.py:43: open(path)
ReaderOpen ==
    /\ rfd = 0
    /\ rfd' = path
    /\ UNCHANGED <<inodes, path, tmp_path, wpc, saves, lastRead>>
    /\ IoFrame

\* io.py:44: _yaml.load(f) reads what the opened file holds
ReaderLoad ==
    /\ rfd # 0
    /\ lastRead' = inodes[rfd]
    /\ rfd' = 0
    /\ UNCHANGED <<inodes, path, tmp_path, wpc, saves>>
    /\ IoFrame

AtomicNext ==
    \/ \E size \in 1..MaxChunks : CreateTemp(size)
    \/ Dump
    \/ CloseTemp
    \/ Rename
    \/ WriterDies
    \/ ReaderOpen
    \/ ReaderLoad

AtomicSpec == Init /\ [][AtomicNext]_vars

\* ------------------------------------------------------- the editing stage
\* models/transcript.py:17-24, without text and words
Segment(id, speaker, start, end) ==
    [id |-> id, speaker |-> speaker, start |-> start, end |-> end]

\* the transcripts' segment lists: none, one speaker throughout, or the host
\* followed by the guest
SegmentLists ==
    {<<>>}
    \cup {<<Segment(1, "host", 0, T)>> : T \in 1..MaxTime}
    \cup {<<Segment(1, "host", 0, st[1]), Segment(2, "guest", st[1], st[2])>> :
             st \in {x \in (1..MaxTime) \X (2..MaxTime) : x[1] < x[2]}}

\* edl_builder.py:19: the default of build_edl's crossfade_duration_ms
crossfade_duration_ms == 50

\* confidences the detectors report, in hundredths
Confidences == {60, 90}

\* models/edl.py:8-25: an Edit with the field defaults of the model
Edit(id, type, source_start, source_end) ==
    [id |-> id, type |-> type,
     source_start |-> source_start, source_end |-> source_end,
     record_start |-> "null", record_end |-> "null", transition |-> "cut",
     speaker |-> "null", confidence |-> "null",
     auto_applied |-> FALSE, review_flag |-> "null"]

\* models/edl.py:27-29
duration(e) == e.source_end - e.source_start

\* sorted(s, key=...) for a list whose keys are `keys`: the positions in
\* ascending order of key, equal keys in their order in the list (the sort
\* is stable)
SortedIndices(keys) ==
    CHOOSE p \in [1..Len(keys) -> 1..Len(keys)] :
        \A i, j \in 1..Len(keys) :
            i < j => \/ keys[p[i]] < keys[p[j]]
                     \/ keys[p[i]] = keys[p[j]] /\ p[i] < p[j]

RECURSIVE SumDurations(_, _)
\* sum(e.duration for e in edits if e.auto_applied), from position k on
SumDurations(edits, k) ==
    IF k > Len(edits) THEN 0
    ELSE (IF edits[k].auto_applied THEN duration(edits[k]) ELSE 0)
         + SumDurations(edits, k + 1)

\* module.py:106
auto_cut_time(edits) == SumDurations(edits, 1)

\* module.py:116: -(e.confidence or 0); every detector sets a confidence
\* (filler.py:64, 113, silence.py:56, tangent.py:140), and `0.0 or 0` is 0
NegConfidence(e) == 0 - e.confidence

\* an edit demoted without a review flag
DemoteUnflagged(e) == [e EXCEPT !.auto_applied = FALSE]

\* module.py:121-122
Demote(e) ==
    [e EXCEPT !.auto_applied = FALSE, !.review_flag = "budget exceeded"]

RECURSIVE CapLoop(_, _, _, _, _)
\* module.py:116-122: the loop over the edits by descending confidence, at
\* position k of that order with `used` seconds kept so far; the budget is
\* total * 0.5, so used + duration <= budget is compared doubled
CapLoop(edits, order, k, used, total) ==
    IF k > Len(order) THEN edits
    ELSE LET i == order[k]
         IN  IF ~edits[i].auto_applied
               THEN CapLoop(edits, order, k + 1, used, total)
             ELSE IF 2 * (used + duration(edits[i])) <= total
               THEN CapLoop(edits, order, k + 1, used + duration(edits[i]), total)
             ELSE CapLoop([edits EXCEPT ![i] = Demote(edits[i])],
                          order, k + 1, used, total)

\* module.py:105-122: cap the auto-cuts at 50% of the episode
CapAutoCuts(edits, total) ==
    IF total > 0 /\ 2 * auto_cut_time(edits) > total
      THEN CapLoop(edits,
                   SortedIndices([i \in 1..Len(edits) |-> NegConfidence(edits[i])]),
                   1, 0, total)
    ELSE edits

\* edl_builder.py:44-48 and 71-74: the speaker of the first segment in a keep
\* region; the final region (bounded = FALSE) has no upper limit
RegionSpeaker(segs, lo, hi, bounded) ==
    LET region == {i \in 1..Len(segs) :
                      /\ segs[i].start >= lo
                      /\ bounded => segs[i].end <= hi}
    IN  IF region = {} THEN ""
        ELSE segs[CHOOSE i \in region : \A j \in region : i <= j].speaker

\* KeepEdit with the source end taken for the record end
KeepEditSourceEnd(n, lo, hi, record_pos, transition, speaker) ==
    [Edit(<<"keep", n>>, "keep", lo, hi) EXCEPT
        !.record_start = record_pos,
        !.record_end   = hi,
        !.transition   = transition,
        !.speaker      = speaker]

\* edl_builder.py:50-62 and 76-88
KeepEdit(n, lo, hi, record_pos, transition, speaker) ==
    [Edit(<<"keep", n>>, "keep", lo, hi) EXCEPT
        !.record_start = record_pos,
        !.record_end   = record_pos + (hi - lo),
        !.transition   = transition,
        !.speaker      = speaker]

RECURSIVE KeepLoop(_, _, _, _, _, _)
\* KeepLoop without `record_pos += duration` (line 63)
KeepLoopNoAdvance(segs, cuts, k, current_pos, record_pos, keep_edits) ==
    IF k > Len(cuts)
      THEN [keep_edits |-> keep_edits, current_pos |-> current_pos,
            record_pos |-> record_pos]
    ELSE LET cut == cuts[k]
             keep_counter == Len(keep_edits) + 1
         IN  IF cut.source_start > current_pos
               THEN KeepLoop(segs, cuts, k + 1, cut.source_end,
                             record_pos,
                             Append(keep_edits,
                                KeepEdit(keep_counter, current_pos, cut.source_start,
                                         record_pos,
                                         IF keep_counter = 1 THEN "cut" ELSE "crossfade",
                                         RegionSpeaker(segs, current_pos, cut.source_start, TRUE))))
             ELSE KeepLoop(segs, cuts, k + 1, cut.source_end, record_pos, keep_edits)

\* edl_builder.py:37-65: the loop over the sorted cuts, at cut k
KeepLoop(segs, cuts, k, current_pos, record_pos, keep_edits) ==
    IF k > Len(cuts)
      THEN [keep_edits |-> keep_edits, current_pos |-> current_pos,
            record_pos |-> record_pos]
    ELSE LET cut == cuts[k]
             keep_counter == Len(keep_edits) + 1
         IN  IF cut.source_start > current_pos
               THEN KeepLoop(segs, cuts, k + 1, cut.source_end,
                             record_pos + (cut.source_start - current_pos),
                             Append(keep_edits,
                                KeepEdit(keep_counter, current_pos, cut.source_start,
                                         record_pos,
                                         IF keep_counter = 1 THEN "cut" ELSE "crossfade",
                                         RegionSpeaker(segs, current_pos, cut.source_start, TRUE))))
             ELSE KeepLoop(segs, cuts, k + 1, cut.source_end, record_pos, keep_edits)

\* build_edl with the transition loop one short: range(len(keep_edits) - 2)
build_edl_short_transitions(segs, cut_edits) ==
    LET total == \* total_duration, line 26
            IF Len(segs) > 0 THEN segs[Len(segs)].end ELSE 0
        order == SortedIndices([i \in 1..Len(cut_edits) |-> cut_edits[i].source_start])
        cuts == [k \in 1..Len(cut_edits) |-> cut_edits[order[k]]]
        loop == KeepLoop(segs, cuts, 1, 0, 0, <<>>)
        last == loop.current_pos < total
        keep_edits ==
            IF last
              THEN Append(loop.keep_edits,
                      KeepEdit(Len(loop.keep_edits) + 1, loop.current_pos, total,
                               loop.record_pos, "crossfade",
                               RegionSpeaker(segs, loop.current_pos, total, FALSE)))
            ELSE loop.keep_edits
        record_pos ==
            IF last THEN loop.record_pos + (total - loop.current_pos)
            ELSE loop.record_pos
    IN  [original_duration_seconds |-> total,
         edited_duration_seconds   |-> record_pos,
         time_removed_seconds      |-> total - record_pos,
         edits       |-> keep_edits \o cuts,
         transitions |-> [i \in 1..(Len(keep_edits) - 2) |->
                             [between |-> <<keep_edits[i].id, keep_edits[i + 1].id>>,
                              type |-> "crossfade",
                              duration_ms |-> crossfade_duration_ms]]]

\* edl_builder.py:13-124
build_edl(segs, cut_edits) ==
    LET total == \* total_duration, line 26
            IF Len(segs) > 0 THEN segs[Len(segs)].end ELSE 0
        order == SortedIndices([i \in 1..Len(cut_edits) |-> cut_edits[i].source_start])
        cuts == [k \in 1..Len(cut_edits) |-> cut_edits[order[k]]]
        loop == KeepLoop(segs, cuts, 1, 0, 0, <<>>)
        last == loop.current_pos < total
        keep_edits ==
            IF last
              THEN Append(loop.keep_edits,
                      KeepEdit(Len(loop.keep_edits) + 1, loop.current_pos, total,
                               loop.record_pos, "crossfade",
                               RegionSpeaker(segs, loop.current_pos, total, FALSE)))
            ELSE loop.keep_edits
        record_pos ==
            IF last THEN loop.record_pos + (total - loop.current_pos)
            ELSE loop.record_pos
    IN  [original_duration_seconds |-> total,
         edited_duration_seconds   |-> record_pos,
         time_removed_seconds      |-> total - record_pos,
         edits       |-> keep_edits \o cuts,
         transitions |-> [i \in 1..(Len(keep_edits) - 1) |->
                             [between |-> <<keep_edits[i].id, keep_edits[i + 1].id>>,
                              type |-> "crossfade",
                              duration_ms |-> crossfade_duration_ms]]]

\* edl_builder.py:105 and 112: round(time_removed / total_duration * 100, 1),
\* in tenths of a percent; a value halfway between two tenths goes to the
\* even one, as Python's round does
time_removed_percent(sidecar) ==
    LET total   == sidecar.original_duration_seconds
        removed == sidecar.time_removed_seconds
        q == (1000 * removed) \div total
        r == (1000 * removed) % total
    IN  IF total > 0
          THEN IF 2 * r < total THEN q
               ELSE IF 2 * r > total THEN q + 1
               ELSE IF q % 2 = 0 THEN q ELSE q + 1
        ELSE 0

\* the pipeline and the file system stand still during the editing run
EdFrame == UNCHANGED <<disk, mem, pc, idx, exc, files, outcome, fromRuns,
                       cooperative, ioVars>>

\* module.py:48-50, 105: the transcript is read; its duration_seconds is
\* what ingestion computed, the largest segment end (ingestion/module.py:116),
\* or, when the file does not carry it, the field's default 0.0
LoadTranscript(segs, has_duration) ==
    /\ epc = "load"
    /\ segments' = segs
    /\ total_duration' = IF has_duration /\ Len(segs) > 0 THEN segs[Len(segs)].end ELSE 0
    /\ epc' = "detect"
    /\ UNCHANGED <<all_cuts, edl, chapVars, mixVars>>
    /\ EdFrame

\* module.py:64-102: a detector proposes a cut; below the auto-apply
\* threshold it is flagged for review (filler.py:67-68, tangent.py:142-146)
Detect(source_start, source_end, confidence, auto_apply) ==
    /\ epc = "detect"
    /\ Len(all_cuts) < MaxCuts
    /\ source_start < source_end
    /\ all_cuts' = Append(all_cuts,
          [Edit(<<"cut", Len(all_cuts) + 1>>, "cut", source_start, source_end) EXCEPT
              !.confidence   = confidence,
              !.auto_applied = auto_apply,
              !.review_flag  = IF auto_apply THEN "null" ELSE "below threshold"])
    /\ UNCHANGED <<segments, total_duration, edl, epc, chapVars, mixVars>>
    /\ EdFrame

\* module.py:104-122
Cap ==
    /\ epc = "detect"
    /\ all_cuts' = CapAutoCuts(all_cuts, total_duration)
    /\ epc' = "capped"
    /\ UNCHANGED <<segments, total_duration, edl, chapVars, mixVars>>
    /\ EdFrame

\* BuildEdl that hands build_edl an empty segment list
BuildEdlNoSegments ==
    /\ epc = "capped"
    /\ edl' = build_edl(<<>>, all_cuts)
    /\ epc' = "done"
    /\ UNCHANGED <<segments, total_duration, all_cuts, chapVars, mixVars>>
    /\ EdFrame

\* module.py:136-146
BuildEdl ==
    /\ epc = "capped"
    /\ edl' = build_edl(segments, all_cuts)
    /\ epc' = "done"
    /\ UNCHANGED <<segments, total_duration, all_cuts, chapVars, mixVars>>
    /\ EdFrame

EditNext ==
    \/ \E segs \in SegmentLists : \E has_duration \in BOOLEAN :
          LoadTranscript(segs, has_duration)
    \/ \E source_start \in 0..MaxTime : \E source_end \in 0..MaxTime :
          \E confidence \in Confidences : \E auto_apply \in BOOLEAN :
             Detect(source_start, source_end, confidence, auto_apply)
    \/ Cap
    \/ BuildEdl

EditSpec == Init /\ [][EditNext]_vars

\* --------------------------------------------------------------- chapters
\* models/context.py:8-16: a topic of the context document
Topic(name, start_time) == [name |-> name, start_time |-> start_time]

\* the context documents' topic lists: none, one topic or two, in any order
\* of their start times
TopicLists ==
    {<<>>}
    \cup {<<Topic("t1", a)>> : a \in 0..MaxTime}
    \cup {<<Topic("t1", ab[1]), Topic("t2", ab[2])>> :
             ab \in (0..MaxTime) \X (0..MaxTime)}

\* chapters.py:37: chapters closer than this to the one before are dropped
MinChapterGap == 30

\* chapters.py:49-59: the loop over the cuts.  The result is <<>> for None
\* and <<time>> for a position on the edited timeline
RECURSIVE MapLoop(_, _, _, _)
MapLoop(original_time, cut_edits, k, offset) ==
    IF k > Len(cut_edits) THEN <<original_time - offset>>
    ELSE IF cut_edits[k].source_end <= original_time
      THEN MapLoop(original_time, cut_edits, k + 1, offset + duration(cut_edits[k]))
    ELSE IF cut_edits[k].source_start < original_time
              /\ original_time < cut_edits[k].source_end
      THEN <<>>
    ELSE MapLoop(original_time, cut_edits, k + 1, offset)

\* a mapping that moves a timestamp inside a cut to the start of that cut
\* instead of giving it no position
_map_to_edited_timeline_clamped(original_time, cut_edits) ==
    LET inside == {i \in 1..Len(cut_edits) :
                      /\ cut_edits[i].source_start < original_time
                      /\ original_time < cut_edits[i].source_end}
    IN  IF inside = {} THEN MapLoop(original_time, cut_edits, 1, 0)
        ELSE MapLoop(cut_edits[CHOOSE i \in inside : \A j \in inside : i <= j].source_start,
                     cut_edits, 1, 0)

\* chapters.py:43-60
_map_to_edited_timeline(original_time, cut_edits) ==
    MapLoop(original_time, cut_edits, 1, 0)

\* chapters.py:25-31: the chapters of the topics that keep a position after
\* the start of the edited timeline
RECURSIVE TopicChapters(_, _, _)
TopicChapters(context_topics, cut_edits, k) ==
    IF k > Len(context_topics) THEN <<>>
    ELSE LET edited_time ==
                 _map_to_edited_timeline(context_topics[k].start_time, cut_edits)
         IN  (IF edited_time # <<>> /\ edited_time[1] > 0
                THEN <<[title |-> context_topics[k].name, time |-> edited_time[1]]>>
              ELSE <<>>)
             \o TopicChapters(context_topics, cut_edits, k + 1)

\* chapters.py:33-38: drop the chapters too close to the one kept before
RECURSIVE Dedupe(_, _, _)
Dedupe(chs, k, deduped) ==
    IF k > Len(chs) THEN deduped
    ELSE IF chs[k].time - deduped[Len(deduped)].time >= MinChapterGap
      THEN Dedupe(chs, k + 1, Append(deduped, chs[k]))
    ELSE Dedupe(chs, k + 1, deduped)

\* chapters.py:11-40; a missing context and an empty topic list both give
\* the introduction alone (line 22)
generate_chapters(context_topics, cut_edits) ==
    LET intro == [title |-> "Introduction", time |-> 0]
    IN  IF context_topics = <<>> THEN <<intro>>
        ELSE Dedupe(<<intro>> \o TopicChapters(context_topics, cut_edits, 1),
                    2, <<intro>>)

\* module.py:52-57: the context document is read
LoadContext(context_topics) ==
    /\ epc = "load"
    /\ topics' = context_topics
    /\ epc' = "detect"
    /\ UNCHANGED <<segments, total_duration, all_cuts, edl, chapters, mixVars>>
    /\ EdFrame

\* module.py:124-128; the cap before it changes auto_applied and review_flag
\* alone, which generate_chapters does not read
GenerateChapters ==
    /\ epc = "detect"
    /\ chapters' = generate_chapters(topics, all_cuts)
    /\ epc' = "chapters"
    /\ UNCHANGED <<segments, total_duration, all_cuts, edl, topics, mixVars>>
    /\ EdFrame

ChapterNext ==
    \/ \E context_topics \in TopicLists : LoadContext(context_topics)
    \/ \E source_start \in 0..MaxTime : \E source_end \in 0..MaxTime :
          \E confidence \in Confidences : \E auto_apply \in BOOLEAN :
             Detect(source_start, source_end, confidence, auto_apply)
    \/ GenerateChapters

ChapterSpec == Init /\ [][ChapterNext]_vars

\* ----------------------------------------------------------------- mixing
\* mixing/module.py:61-63: speaker name -> track path, from the manifest's
\* participants (multi-track ingestion names each speaker after the owner of
\* the track, ingestion/diarize.py:36-38)
track_map == [host |-> "tracks/host.wav", guest |-> "tracks/guest.wav"]

\* models/alignment.py:36-40 on an alignment map that delays the guest's
\* track by two seconds
get_track_offset(track_path) ==
    IF track_path = "tracks/guest.wav" THEN 0 - 2000 ELSE 0

\* models/edl.py:55-57
keep_edits(sidecar) ==
    LET IsKeep(e) == e.type = "keep"
    IN  SelectSeq(sidecar.edits, IsKeep)

\* timeline.py:46-59: the region of one keep edit; build_edl gives every keep
\* a speaker string and both record positions, so the `or` defaults of lines
\* 46, 55 and 56 apply to the empty speaker alone
AudioRegion(edit) ==
    LET speaker    == IF edit.speaker = "null" THEN "" ELSE edit.speaker
        track_path == IF speaker \in DOMAIN track_map THEN track_map[speaker] ELSE ""
    IN  [edit_id      |-> edit.id,
         track_path   |-> track_path,
         source_start |-> edit.source_start,
         source_end   |-> edit.source_end,
         record_start |-> edit.record_start,
         record_end   |-> edit.record_end,
         speaker      |-> speaker,
         offset_ms    |-> IF track_path # "" THEN get_track_offset(track_path) ELSE 0]

\* timeline.py:31-65: one region per keep edit, sorted by record_start
build_timeline(sidecar) ==
    LET keeps    == keep_edits(sidecar)
        unsorted == [i \in 1..Len(keeps) |-> AudioRegion(keeps[i])]
        order    == SortedIndices([i \in 1..Len(keeps) |-> unsorted[i].record_start])
    IN  [i \in 1..Len(keeps) |-> unsorted[order[i]]]

\* extract.py:29-54: the regions that have a track are cut out of it, from
\* the aligned start (whole seconds, never below 0) for the region's
\* duration; the others are skipped (line 30-31).  The result maps edit_id
\* to the extracted piece
extract_regions(rs) ==
    LET with_track == {i \in 1..Len(rs) : rs[i].track_path # ""}
        Piece(i) ==
            LET adjusted_start == rs[i].source_start + (rs[i].offset_ms \div 1000)
            IN  [edit_id    |-> rs[i].edit_id,
                 track_path |-> rs[i].track_path,
                 start      |-> IF adjusted_start > 0 THEN adjusted_start ELSE 0,
                 duration   |-> rs[i].source_end - rs[i].source_start]
    IN  [id \in {rs[i].edit_id : i \in with_track} |->
            Piece(CHOOSE i \in with_track : rs[i].edit_id = id)]

\* module.py:105-108: the extracted pieces in the order of the regions
RECURSIVE OrderedPaths(_, _, _)
OrderedPaths(rs, extracted, k) ==
    IF k > Len(rs) THEN <<>>
    ELSE (IF rs[k].edit_id \in DOMAIN extracted
            THEN <<extracted[rs[k].edit_id]>> ELSE <<>>)
         \o OrderedPaths(rs, extracted, k + 1)

\* module.py:57, 66-69: the mixing run reads the EDL the editing run wrote
\* and builds the timeline
BuildTimeline ==
    /\ epc = "done"
    /\ mpc = "idle"
    /\ regions' = build_timeline(edl)
    /\ mpc' = "timeline"
    /\ UNCHANGED <<segments, total_duration, all_cuts, edl, epc, chapVars,
                   ordered_paths>>
    /\ EdFrame

\* module.py:72-81 and 105-108
ExtractRegions ==
    /\ mpc = "timeline"
    /\ ordered_paths' = OrderedPaths(regions, extract_regions(regions), 1)
    /\ mpc' = "assemble"
    /\ UNCHANGED <<segments, total_duration, all_cuts, edl, epc, chapVars,
                   regions>>
    /\ EdFrame

MixNext ==
    \/ EditNext
    \/ BuildTimeline
    \/ ExtractRegions

MixSpec == Init /\ [][MixNext]_vars

\* ================================================================= properties
\* position of current_stage in the fixed order; "complete" is past the end
CurrentIndex(manifest) ==
    IF manifest.current_stage = "complete" THEN Len(STAGE_ORDER) + 1
    ELSE StageIndex(manifest.current_stage)

CompletedAndApproved(manifest, s) ==
    /\ manifest.stages[s].status = "completed"
    /\ manifest.stages[s].gate_approved = "true"

AwaitingReview(manifest, s) ==
    /\ manifest.stages[s].status = "completed"
    /\ manifest.stages[s].gate_approved = "null"

InProgress(manifest) == {s \in Stages : manifest.stages[s].status = "in_progress"}

\* C1: the gate is a barrier.  In every persisted manifest, for consecutive
\* stages S, T: if T has left pending or current_stage is later than S, then
\* S is completed with gate_approved = true.
C1_GateBarrier ==
    \A i \in 1..(Len(STAGE_ORDER) - 1) :
        (\/ disk.stages[STAGE_ORDER[i + 1]].status # "pending"
         \/ CurrentIndex(disk) > i)
        => CompletedAndApproved(disk, STAGE_ORDER[i])

\* C2: in every persisted manifest at most one stage is in_progress.
C2_OneInProgress == Cardinality(InProgress(disk)) <= 1

\* C3: while a stage module's run is executing (and until its result is
\* saved) the persisted manifest shows that stage in_progress, with error
\* cleared and started_at stamped.
C3_InProgressPersistedBeforeWork ==
    pc \in {"run", "except", "returned"} =>
        /\ disk.stages[stage_name].status = "in_progress"
        /\ disk.stages[stage_name].error = NoError
        /\ disk.stages[stage_name].started_at = "ts"

\* C3 witness: the module of a stage that failed at its first checkpoint in
\* an earlier attempt is running again, the error cleared on disk
C3_Witness ==
    /\ pc = "run"
    /\ mem.stages[stage_name].last_completed_step = Steps[stage_name][1]
    /\ mem.stages[stage_name].completed_at = "null"
    /\ disk.stages[stage_name].status = "in_progress"
    /\ disk.stages[stage_name].error = NoError

\* C4: when a module's run has raised, run_pipeline's next step (unless the
\* process is killed first) ends the invocation by propagating that
\* exception, with the manifest on disk showing the stage failed, the
\* exception's type name and its message cut to at most 500 characters, and
\* every other stage as it was.
C4_FailurePersistedThenRaised ==
    [][(pc = "except" /\ pc' # "except" /\ outcome'.kind # "killed") =>
          /\ pc' = "idle"
          /\ outcome'.kind = "stage_failed"
          /\ outcome'.type = exc.type
          /\ outcome'.stage = stage_name
          /\ disk'.stages[stage_name].status = "failed"
          /\ disk'.stages[stage_name].error.type = exc.type
          /\ disk'.stages[stage_name].error.message <= 500
          /\ exc.len <= 500 => disk'.stages[stage_name].error.message = exc.len
          /\ \A t \in Stages \ {stage_name} : disk'.stages[t] = disk.stages[t]
      ]_vars

\* C4 witness: a failure whose message had to be cut has been propagated
C4_Witness ==
    /\ pc = "idle"
    /\ outcome.kind = "stage_failed"
    /\ disk.stages[outcome.stage].status = "failed"
    /\ disk.stages[outcome.stage].error.message = 500

\* the first stage in the fixed order that is completed and awaits review
FirstAwaiting(manifest) ==
    STAGE_ORDER[CHOOSE i \in 1..Len(STAGE_ORDER) :
        /\ AwaitingReview(manifest, STAGE_ORDER[i])
        /\ \A j \in 1..(i - 1) : ~AwaitingReview(manifest, STAGE_ORDER[j])]

NoneAwaiting(manifest) == \A s \in Stages : ~AwaitingReview(manifest, s)

Successor(s) ==
    IF s = "mastering" THEN "complete" ELSE STAGE_ORDER[StageIndex(s) + 1]

Terminal(manifest) ==
    /\ \A s \in Stages : CompletedAndApproved(manifest, s)
    /\ manifest.current_stage = "complete"

\* a step in which a command that ended as `kind` was executed
CommandEnds(kind) == pc = "idle" /\ outcome' # outcome /\ outcome'.kind = kind

\* C5: resume makes progress.  Once inputs validate, stage work succeeds,
\* every presented gate is approved and run keeps being invoked without
\* from_stage, the persisted manifest eventually is terminal: all four
\* stages completed and approved, current_stage = "complete".
C5_ResumeReachesTerminal == cooperative ~> Terminal(disk)

\* C6: run_pipeline never redoes completed work.  No step of run_pipeline
\* changes, on disk or in memory, a stage that is completed and approved, nor
\* invokes its module; when the loop is at such a stage it moves on to the
\* next one (also when the stage is from_stage).
C6_CompletedNeverRedone ==
    [][(pc # "idle" /\ ~UNCHANGED <<pc, idx, mem, disk>>) =>
          \A s \in Stages : CompletedAndApproved(mem, s) =>
              /\ disk'.stages[s] = disk.stages[s]
              /\ pc' # "idle" => mem'.stages[s] = mem.stages[s]
              /\ (pc = "loop" /\ idx <= Len(STAGE_ORDER) /\ STAGE_ORDER[idx] = s) =>
                     \/ pc' = "idle" /\ outcome'.kind = "killed"
                     \/ pc' = "loop" /\ idx' = idx + 1
      ]_vars

\* C6 witness: run --from S with S completed and approved has skipped S
\* (current_stage is further on, so S was not approved by this invocation)
C6_Witness ==
    /\ pc = "loop"
    /\ idx >= 2
    /\ outcome.stage = STAGE_ORDER[idx - 1]
    /\ CompletedAndApproved(mem, STAGE_ORDER[idx - 1])
    /\ CompletedAndApproved(disk, STAGE_ORDER[idx - 1])
    /\ CurrentIndex(disk) > idx

\* C7: reject_gate with a stage awaiting review succeeds and resets the first
\* such stage: status pending, started_at, completed_at and gate_approved
\* null, current_stage that stage, the notes (when given) recorded, every
\* other stage unchanged.
C7_RejectResets ==
    [][/\ CommandEnds("rejected") =>
            /\ ~NoneAwaiting(disk)
            /\ LET s == FirstAwaiting(disk) IN
                /\ outcome'.stage = s
                /\ disk'.stages[s].status = "pending"
                /\ disk'.stages[s].started_at = "null"
                /\ disk'.stages[s].completed_at = "null"
                /\ disk'.stages[s].gate_approved = "null"
                /\ disk'.current_stage = s
                /\ disk'.stages[s].gate_notes =
                       IF outcome'.notes \in {"null", ""}
                       THEN disk.stages[s].gate_notes ELSE outcome'.notes
                /\ \A t \in Stages \ {s} : disk'.stages[t] = disk.stages[t]
       /\ CommandEnds("no_gate_review") => NoneAwaiting(disk)
      ]_vars

\* C7 witness: the editing gate was rejected with notes "too aggressive"
C7_Witness ==
    /\ pc = "idle"
    /\ outcome.kind = "rejected"
    /\ outcome.stage = "editing"
    /\ outcome.notes = "too aggressive"
    /\ disk.stages["editing"].status = "pending"
    /\ disk.stages["editing"].gate_notes = "too aggressive"
    /\ disk.current_stage = "editing"

\* C8: approve_gate with a stage awaiting review succeeds, sets gate_approved
\* = true (and the approval time) on the first such stage, sets current_stage
\* to its successor ("complete" after mastering), on disk, and leaves every
\* other stage unchanged.
C8_ApproveAdvances ==
    [][/\ CommandEnds("approved") =>
            /\ ~NoneAwaiting(disk)
            /\ LET s == FirstAwaiting(disk) IN
                /\ outcome'.stage = s
                /\ disk'.stages[s].status = "completed"
                /\ disk'.stages[s].gate_approved = "true"
                /\ disk'.stages[s].gate_approved_at = "ts"
                /\ disk'.current_stage = Successor(s)
                /\ \A t \in Stages \ {s} : disk'.stages[t] = disk.stages[t]
       /\ CommandEnds("no_gate_pending") => NoneAwaiting(disk)
      ]_vars

\* C8 witness: the mastering gate was approved by approve_gate
C8_Witness ==
    /\ pc = "idle"
    /\ outcome.kind = "approved"
    /\ outcome.stage = "mastering"
    /\ disk.stages["mastering"].gate_approved = "true"
    /\ disk.current_stage = "complete"

\* C9: approve_gate right after a successful approve_gate fails with the
\* no-gate-pending error and leaves the manifest file as it is; and
\* approve_gate and reject_gate fail without writing whenever no stage
\* awaits review.
C9_SecondApproveFails ==
    [][/\ (outcome.kind = "approved" /\
           (CommandEnds("approved") \/ CommandEnds("no_gate_pending"))) =>
            /\ outcome'.kind = "no_gate_pending"
            /\ disk' = disk
       /\ (NoneAwaiting(disk) /\
           \E k \in {"approved", "rejected", "no_gate_pending", "no_gate_review"} :
               CommandEnds(k)) =>
            /\ outcome'.kind \in {"no_gate_pending", "no_gate_review"}
            /\ disk' = disk
      ]_vars

\* C10 as claimed: after run_pipeline halted on a gate decision that was not
\* an approval, the stage is pending with gate_approved = null.
C10_DeclineResetsStage ==
    outcome.kind = "paused" =>
        /\ disk.stages[outcome.stage].status = "pending"
        /\ disk.stages[outcome.stage].gate_approved = "null"

\* C10 amended: a decision that is not an approval halts run_pipeline with
\* the manifest file unchanged, the stage still completed and awaiting
\* review; and a run_pipeline whose loop is at a stage awaiting review
\* presents its gate, it does not invoke the stage's module.
C10_DeclineKeepsGatePending ==
    [][/\ (pc \in {"gate_resume", "gate_post"} /\ outcome'.kind = "paused") =>
            /\ pc' = "idle"
            /\ disk' = disk
            /\ outcome'.stage = stage_name
            /\ AwaitingReview(disk', stage_name)
       /\ (pc = "loop" /\ idx <= Len(STAGE_ORDER) /\ AwaitingReview(mem, STAGE_ORDER[idx])
           /\ ~UNCHANGED <<pc, idx, mem, disk>>) =>
            /\ disk' = disk
            /\ \/ pc' = "gate_resume" /\ idx' = idx
               \/ pc' = "idle" /\ outcome'.kind = "killed"
      ]_vars

\* C10 witness: run was invoked again after a declined gate and presents the
\* same gate
C10_Witness ==
    /\ pc = "gate_resume"
    /\ AwaitingReview(disk, stage_name)
    /\ disk.stages[stage_name].gate_notes = "null"
    /\ disk.stages[stage_name].last_completed_step # "null"

\* the inputs of the stage the loop is at are missing whatever the manifest's
\* tracks are: validate_inputs returns errors
InputsMissing == ~validate_inputs(stage_name, files, TRUE)

\* the loop is at a stage that is neither skipped nor at its gate
StageDue ==
    /\ pc = "loop" /\ idx <= Len(STAGE_ORDER)
    /\ ~IsApproved(get_stage(mem, stage_name))
    /\ ~IsPendingGate(get_stage(mem, stage_name))

\* C11: when validate_inputs returns errors for the stage due, run_pipeline
\* raises without starting the stage: the module's run is not invoked and the
\* persisted manifest (the stage's status, started_at and error, and
\* current_stage) is what it was immediately before the validation.
C11_ValidationFailureLeavesStage ==
    [][/\ (pc = "loop" /\ outcome'.kind = "input_validation_failed") =>
            /\ disk' = disk
            /\ pc' = "idle"
            /\ outcome'.type = "RuntimeError"
            /\ outcome'.stage = stage_name
       /\ (StageDue /\ InputsMissing /\ ~UNCHANGED <<pc, idx, mem, disk>>) =>
            /\ pc' = "idle"
            /\ outcome'.kind \in {"input_validation_failed", "killed"}
            /\ disk' = disk
      ]_vars

\* a validation failure at a stage whose earlier attempt failed: the failed
\* status and its error are still what the manifest holds
C11_Witness ==
    /\ pc = "idle"
    /\ outcome.kind = "input_validation_failed"
    /\ disk.stages[outcome.stage].status = "failed"
    /\ disk.stages[outcome.stage].error # NoError

\* C12: when the module's run has returned normally, the manifest persisted
\* next shows that stage completed (with its completion time) and
\* gate_approved = null, and current_stage is that stage, not a later one;
\* no other stage's record is touched by that save.
C12_CompletionAwaitsGate ==
    [][(pc = "returned" /\ pc' = "gate_post") =>
          /\ disk' = mem'
          /\ AwaitingReview(disk', stage_name)
          /\ disk'.stages[stage_name].completed_at = "ts"
          /\ disk'.current_stage = stage_name
          /\ CurrentIndex(disk') <= idx
          /\ \A s \in Stages \ {stage_name} : disk'.stages[s] = disk.stages[s]
      ]_vars

\* a completion saved for a stage that had been run before, reviewed and
\* rejected with notes, and has now been run again
C12_Witness ==
    /\ pc = "gate_post"
    /\ AwaitingReview(disk, stage_name)
    /\ disk.stages[stage_name].gate_notes = "too aggressive"
    /\ disk.stages[stage_name].last_completed_step = Steps[stage_name][Len(Steps[stage_name])]

\* C13: in every persisted manifest current_stage = "complete" holds exactly
\* when all four stages are completed and approved, and run_pipeline reports
\* the pipeline complete (its loop ends without halting) only in such a state.
C13_CompleteIffAllApproved ==
    /\ disk.current_stage = "complete" <=>
           \A s \in Stages : CompletedAndApproved(disk, s)
    /\ (pc = "idle" /\ outcome.kind = "complete") =>
           /\ disk.current_stage = "complete"
           /\ \A s \in Stages : CompletedAndApproved(disk, s)

\* C14: in every persisted manifest, after crashes too, a stage whose
\* gate_approved is not null has status completed.
C14_GateFlagOnlyOnCompleted ==
    \A s \in Stages :
        disk.stages[s].gate_approved # "null" => disk.stages[s].status = "completed"

\* after a kill the manifest holds an approved stage next to one that was
\* rejected earlier and is now left in_progress
C14_Witness ==
    /\ pc = "idle"
    /\ outcome.kind = "killed"
    /\ \E s \in Stages : disk.stages[s].gate_approved = "true"
    /\ \E s \in Stages :
          /\ disk.stages[s].status = "in_progress"
          /\ disk.stages[s].gate_notes # "null"

\* the checkpoint values a stage's record can hold
StepNames(s) == {"null"} \cup {Steps[s][i] : i \in {1, Len(Steps[s])}}

\* the manifests that differ from manifest only in stage s's
\* last_completed_step and, where an error is recorded, in its error.step
VariantsAt(manifest, s) ==
    {[manifest EXCEPT !.stages[s].last_completed_step = v,
                      !.stages[s].error.step =
                          IF manifest.stages[s].error = NoError THEN "null" ELSE w] :
        v \in StepNames(s), w \in StepNames(s)}

\* a manifest without its checkpoint fields
Erase(manifest) ==
    [manifest EXCEPT !.stages =
        [s \in Stages |-> [manifest.stages[s] EXCEPT !.last_completed_step = "null",
                                                     !.error.step = "null"]]]

\* what run_pipeline decides and writes at the stage the loop is at is the
\* same for m as for the manifest it holds, up to the checkpoint fields
SameRun(m) ==
    /\ IsApproved(get_stage(m, stage_name)) = IsApproved(get_stage(mem, stage_name))
    /\ IsPendingGate(get_stage(m, stage_name)) = IsPendingGate(get_stage(mem, stage_name))
    /\ pc = "loop" =>
          Erase(MarkInProgress(m, stage_name)) = Erase(MarkInProgress(mem, stage_name))
    /\ pc = "run" =>
          \A n \in {0, 1, Len(Steps[stage_name])} :
             Erase(Checkpoint(m, stage_name, n)) = Erase(Checkpoint(mem, stage_name, n))
    /\ pc = "except" =>
          Erase(MarkFailed(m, stage_name, exc)) = Erase(MarkFailed(mem, stage_name, exc))
    /\ pc = "returned" =>
          Erase(MarkCompleted(m, stage_name)) = Erase(MarkCompleted(mem, stage_name))
    /\ pc \in {"gate_resume", "gate_post"} =>
          /\ Erase(GateApproved(m, stage_name)) = Erase(GateApproved(mem, stage_name))
          /\ Erase(GateNotApproved(m, stage_name)) = Erase(GateNotApproved(mem, stage_name))

\* C16: checkpoints are advisory.  Two manifests that differ only in
\* last_completed_step (and error.step) make run_pipeline take the same
\* decision at every stage and write the same statuses: at every point of a
\* run the decision and the update computed from any such variant of the
\* manifest agree with those computed from the manifest itself.  A stage
\* found failed or in_progress is never skipped or gated on account of its
\* checkpoint: it is started again (its module is invoked anew) unless its
\* inputs fail validation or the process is killed.
C16_CheckpointsAdvisory ==
    /\ [](pc # "idle" /\ idx <= Len(STAGE_ORDER) =>
            \A m \in VariantsAt(mem, stage_name) : SameRun(m))
    /\ [][(/\ StageDue
           /\ get_stage(mem, stage_name).status \in {"failed", "in_progress"}
           /\ ~UNCHANGED <<pc, idx, mem, disk>>) =>
             \/ /\ pc' = "run"
                /\ idx' = idx
                /\ Erase(mem') = Erase(MarkInProgress(mem, stage_name))
             \/ /\ pc' = "idle"
                /\ outcome'.kind \in {"input_validation_failed", "killed"}
                /\ disk' = disk
         ]_vars

\* a stage whose earlier attempt failed past its last checkpoint is running
\* again and has failed at its first checkpoint
C16_Witness ==
    /\ pc = "except"
    /\ disk.stages[stage_name].last_completed_step
          = Steps[stage_name][Len(Steps[stage_name])]
    /\ mem.stages[stage_name].last_completed_step = Steps[stage_name][1]

\* C15: manifest saves are atomic.  With write_atomic taken as create
\* temporary file, write, close, rename over the target, and a kill or a
\* reader between any two of these steps, the manifest path always names a
\* complete manifest, the previous one until the rename and the new one from
\* then on, and what a reader of the path gets is a complete manifest that
\* was saved before: never a partially written one.
C15_SaveIsAtomic ==
    /\ Complete(inodes[path])
    /\ wpc # "idle" => inodes[path].data < inodes[tmp_path].data
    /\ rfd # 0 => Complete(inodes[rfd]) /\ inodes[rfd].data <= inodes[path].data
    /\ lastRead # NoRead => Complete(lastRead) /\ lastRead.data <= inodes[path].data

\* a reader opened the manifest, a save replaced it while another save had
\* been killed half-written, and the reader then got the older manifest whole
C15_Witness ==
    /\ lastRead # NoRead
    /\ lastRead.data < inodes[path].data
    /\ rfd = 0
    /\ wpc = "open"
    /\ \E i \in 1..Len(inodes) : i # tmp_path /\ ~Complete(inodes[i])

\* the capping step of the editing run is behind
Capped == epc \in {"capped", "done"}

\* C17: budget rule.  For all cut proposals and all episode durations, zero
\* included, after the capping step the durations of the auto_applied edits
\* sum to at most 0.5 x the episode duration.
C17_AutoCutsWithinBudget ==
    Capped => 2 * auto_cut_time(all_cuts) <= total_duration

\* the edits the capping step demoted
DemotedByCap == {i \in 1..Len(all_cuts) : all_cuts[i].review_flag = "budget exceeded"}

\* C18: after capping, no demoted edit has strictly higher confidence than an
\* edit that is still auto_applied (edits are demoted lowest confidence first).
C18_DemotedLowestFirst ==
    Capped =>
       \A i \in DemotedByCap : \A j \in 1..Len(all_cuts) :
          all_cuts[j].auto_applied => all_cuts[i].confidence <= all_cuts[j].confidence

\* C19: the capping step changes only edits that were auto_applied, and only
\* by setting auto_applied = false together with a non-null review_flag; every
\* other field and every edit that was not auto_applied stays as it was, no
\* edit is promoted, and when the auto-applied sum is within the budget no
\* edit changes.
C19_CapOnlyDemotes ==
    [][(epc = "detect" /\ epc' = "capped") =>
          /\ Len(all_cuts') = Len(all_cuts)
          /\ \A i \in 1..Len(all_cuts) :
                \/ all_cuts'[i] = all_cuts[i]
                \/ /\ all_cuts[i].auto_applied
                   /\ ~all_cuts'[i].auto_applied
                   /\ all_cuts'[i].review_flag # "null"
                   /\ all_cuts'[i] = [all_cuts[i] EXCEPT
                                         !.auto_applied = FALSE,
                                         !.review_flag  = all_cuts'[i].review_flag]
          /\ 2 * auto_cut_time(all_cuts) <= total_duration => all_cuts' = all_cuts
      ]_vars

\* the cap demoted one edit and left alone one that a detector had flagged
C19_Witness ==
    /\ epc = "capped"
    /\ DemotedByCap # {}
    /\ \E j \in 1..Len(all_cuts) : all_cuts[j].review_flag = "below threshold"

\* second t of the source lies in a keep edit of the EDL
InKeep(t) ==
    \E k \in 1..Len(edl.edits) :
        /\ edl.edits[k].type = "keep"
        /\ edl.edits[k].source_start <= t /\ t < edl.edits[k].source_end

\* second t of the source lies in an approved (auto_applied) cut
InApprovedCut(t) ==
    \E j \in 1..Len(all_cuts) :
        /\ all_cuts[j].auto_applied
        /\ all_cuts[j].source_start <= t /\ t < all_cuts[j].source_end

\* C20: in the EDL the editing stage builds, a cut proposal with
\* auto_applied = false does not shorten the timeline: every second of its
\* source interval inside the episode is in a keep edit (unless an approved
\* cut removes that second as well).
C20_UnapprovedCutsKept ==
    epc = "done" =>
       \A i \in 1..Len(all_cuts) :
          ~all_cuts[i].auto_applied =>
             \A t \in all_cuts[i].source_start .. (all_cuts[i].source_end - 1) :
                t < edl.original_duration_seconds => InKeep(t) \/ InApprovedCut(t)

\* EDLSidecar.keep_edits and EDLSidecar.cut_edits (models/edl.py)
KeepsOf(sidecar) == SelectSeq(sidecar.edits, LAMBDA e : e.type = "keep")

CutsOf(sidecar) == SelectSeq(sidecar.edits, LAMBDA e : e.type = "cut")

RECURSIVE TotalDuration(_, _)
\* the sum of the source durations of the edits from position k on
TotalDuration(edits, k) ==
    IF k > Len(edits) THEN 0
    ELSE (edits[k].source_end - edits[k].source_start) + TotalDuration(edits, k + 1)

\* the cuts are pairwise non-overlapping and lie within [0, total]
DisjointWithin(cuts, total) ==
    /\ \A i \in 1..Len(cuts) : 0 <= cuts[i].source_start /\ cuts[i].source_end <= total
    /\ \A i, j \in 1..Len(cuts) :
          i # j => \/ cuts[i].source_end <= cuts[j].source_start
                   \/ cuts[j].source_end <= cuts[i].source_start

\* the scenario of 1800 s with interior cuts of 100 s, 200 s and 50 s
ScenarioEDL ==
    build_edl(<<Segment(1, "host", 0, 1800)>>,
              <<Edit(<<"cut", 1>>, "cut", 200, 300),
                Edit(<<"cut", 2>>, "cut", 600, 800),
                Edit(<<"cut", 3>>, "cut", 1000, 1050)>>)

C22_KeepsTileRecord ==
    epc = "done" =>
       LET keeps == KeepsOf(edl)
       IN  /\ Len(keeps) > 0 => keeps[1].record_start = 0
           /\ \A i \in 1..(Len(keeps) - 1) :
                 keeps[i + 1].record_start = keeps[i].record_end
           /\ \A i \in 1..Len(keeps) :
                 keeps[i].record_end - keeps[i].record_start
                    = keeps[i].source_end - keeps[i].source_start

\* two keeps around two cuts that overlap
C22_Witness ==
    /\ epc = "done"
    /\ Len(KeepsOf(edl)) = 2
    /\ Len(all_cuts) = 2
    /\ ~DisjointWithin(all_cuts, edl.original_duration_seconds)
    /\ KeepsOf(edl)[2].record_start # KeepsOf(edl)[2].source_start

\* C23: in every EDL with at least one keep edit, the empty cut set included,
\* the first keep edit (the one at record_start = 0) has transition "cut" and
\* every later keep edit has transition "crossfade".
C23_FirstKeepCuts ==
    epc = "done" =>
       LET keeps == KeepsOf(edl)
       IN  /\ Len(keeps) > 0 => keeps[1].transition = "cut"
           /\ \A i \in 2..Len(keeps) : keeps[i].transition = "crossfade"

\* C24: build_edl emits exactly max(0, number of keep edits - 1) transitions,
\* and the i-th transition names the ids of the i-th and (i+1)-th keep edits
\* in record-time order and carries the configured crossfade duration.
C24_TransitionsBetweenKeeps ==
    epc = "done" =>
       LET keeps == KeepsOf(edl)
       IN  /\ Len(edl.transitions) = (IF Len(keeps) > 0 THEN Len(keeps) - 1 ELSE 0)
           /\ \A i \in 1..Len(edl.transitions) :
                 /\ i + 1 <= Len(keeps)
                 /\ edl.transitions[i].between = <<keeps[i].id, keeps[i + 1].id>>
                 /\ keeps[i].record_end = keeps[i + 1].record_start
                 /\ edl.transitions[i].duration_ms = crossfade_duration_ms

\* an EDL with two keeps and the transition between them
C24_Witness ==
    /\ epc = "done"
    /\ Len(KeepsOf(edl)) = 2
    /\ Len(edl.transitions) = 1
    /\ edl.transitions[1].between = <<KeepsOf(edl)[1].id, KeepsOf(edl)[2].id>>

Intersect(a, b) ==
    /\ a.source_start < b.source_end /\ b.source_start < a.source_end
    /\ a.source_start < a.source_end /\ b.source_start < b.source_end

\* C29: keep regions are exactly what is not in a cut.  For every cut set
\* passed to build_edl, overlapping or nested cuts and any order included, no
\* keep edit's source interval intersects the source interval of a cut, and
\* every keep edit lies within [0, original_duration].
C29_KeepsAvoidCuts ==
    epc = "done" =>
       \A k \in 1..Len(KeepsOf(edl)) :
          LET keep == KeepsOf(edl)[k]
          IN  /\ \A i \in 1..Len(all_cuts) : ~Intersect(keep, all_cuts[i])
              /\ 0 <= keep.source_start
              /\ keep.source_end <= edl.original_duration_seconds

\* the durations of the cuts that end at or before t, summed
RECURSIVE CutTimeBefore(_, _, _)
CutTimeBefore(cuts, t, k) ==
    IF k > Len(cuts) THEN 0
    ELSE (IF cuts[k].source_end <= t THEN duration(cuts[k]) ELSE 0)
         + CutTimeBefore(cuts, t, k + 1)

\* t lies strictly inside some cut
StrictlyInsideCut(cuts, t) ==
    \E i \in 1..Len(cuts) : cuts[i].source_start < t /\ t < cuts[i].source_end

\* a 600 s episode with a cut over [100, 200]: one topic before the cut, one
\* inside it and one after it
ScenarioChapters ==
    generate_chapters(<<Topic("before", 50), Topic("inside", 150), Topic("after", 400)>>,
                      <<Edit(<<"cut", 1>>, "cut", 100, 200)>>)

\* C26: chapter-time remapping.  For every timestamp and every cut list,
\* _map_to_edited_timeline gives no position when the timestamp is strictly
\* inside some cut and otherwise the timestamp minus the summed durations of
\* the cuts that end at or before it; generate_chapters gives no chapter to a
\* topic whose start has no position, neither before nor after the chapters
\* too close together are dropped.
C26_ChapterRemapping ==
    /\ \A t \in 0..MaxTime :
          _map_to_edited_timeline(t, all_cuts) =
              IF StrictlyInsideCut(all_cuts, t) THEN <<>>
              ELSE <<t - CutTimeBefore(all_cuts, t, 1)>>
    /\ \A k \in 1..Len(topics) :
          StrictlyInsideCut(all_cuts, topics[k].start_time) =>
              /\ \A c \in 1..Len(TopicChapters(topics, all_cuts, 1)) :
                    TopicChapters(topics, all_cuts, 1)[c].title # topics[k].name
              /\ \A c \in 1..Len(chapters) : chapters[c].title # topics[k].name
    /\ ScenarioChapters = <<[title |-> "Introduction", time |-> 0],
                            [title |-> "before", time |-> 50],
                            [title |-> "after", time |-> 300]>>

\* the chapters were generated for a topic that starts strictly inside a cut
\* and a topic that starts after a cut
C26_Witness ==
    /\ epc = "chapters"
    /\ \E k \in 1..Len(topics) : StrictlyInsideCut(all_cuts, topics[k].start_time)
    /\ \E k \in 1..Len(topics) :
          /\ ~StrictlyInsideCut(all_cuts, topics[k].start_time)
          /\ CutTimeBefore(all_cuts, topics[k].start_time, 1) > 0
    /\ chapters # <<>>

\* C27: region mapping covers the whole output timeline in order.  Once the
\* mixing run has extracted the regions, every keep edit of the EDL has
\* exactly one region and exactly one extracted piece, taken from the track
\* of the keep's speaker and as long as the keep, and the pieces handed to the
\* assembly are those of all the keeps in ascending record_start order.
C27_RegionsCoverTimeline ==
    mpc = "assemble" =>
        LET keeps == keep_edits(edl)
        IN  /\ Len(regions) = Len(keeps)
            /\ Len(ordered_paths) = Len(keeps)
            /\ \A k \in 1..Len(keeps) :
                  /\ Cardinality({i \in 1..Len(regions) :
                                     regions[i].edit_id = keeps[k].id}) = 1
                  /\ Cardinality({i \in 1..Len(ordered_paths) :
                                     ordered_paths[i].edit_id = keeps[k].id}) = 1
                  /\ \A i \in 1..Len(ordered_paths) :
                        ordered_paths[i].edit_id = keeps[k].id =>
                            /\ keeps[k].speaker \in DOMAIN track_map
                            /\ ordered_paths[i].track_path = track_map[keeps[k].speaker]
                            /\ ordered_paths[i].duration = duration(keeps[k])
            /\ \A i, j \in 1..Len(regions) :
                  i < j => regions[i].record_start <= regions[j].record_start
            /\ \A i \in 1..Len(ordered_paths) :
                  i <= Len(regions) => ordered_paths[i].edit_id = regions[i].edit_id

\* C28: the error.step persisted with a failure is the last checkpoint the
\* module reached during the failing attempt.  Whenever a module's run
\* raises after n of its checkpoints, the error that run_pipeline then writes
\* for the stage has step null when n = 0 and the n-th checkpoint otherwise,
\* whatever last_completed_step an earlier attempt of the stage left behind.
C28_ErrorStepOfThisAttempt ==
    [][\A e \in Exceptions : \A n \in 0..MaxCheckpoints : \A w \in 0..MaxOutputs :
          ModuleRaises(e, n, w) =>
              MarkFailed(mem', stage_name, exc').stages[stage_name].error.step =
                  IF n = 0 THEN "null" ELSE Steps[stage_name][n]
      ]_vars

\* C30: in an execution that has used run_pipeline without from_stage,
\* approve_gate, reject_gate and kills only, the manifest on disk always has
\* every stage before current_stage completed with gate_approved true and
\* every stage after it pending with gate_approved null, and current_stage is
\* not itself completed and approved: it names the first stage that is not.
C30_CurrentStagePartitions ==
    fromRuns = 0 =>
        /\ \A i \in 1..Len(STAGE_ORDER) :
              /\ i < CurrentIndex(disk) => CompletedAndApproved(disk, STAGE_ORDER[i])
              /\ i > CurrentIndex(disk) =>
                    /\ disk.stages[STAGE_ORDER[i]].status = "pending"
                    /\ disk.stages[STAGE_ORDER[i]].gate_approved = "null"
        /\ disk.current_stage \in Stages =>
              ~CompletedAndApproved(disk, disk.current_stage)

\* without any from_stage run, the first two stages are approved on disk, one
\* of them after a gate command that left notes, and the third has failed
C30_Witness ==
    /\ fromRuns = 0
    /\ disk.current_stage = "mixing"
    /\ disk.stages.mixing.status = "failed"
    /\ CompletedAndApproved(disk, "ingestion")
    /\ CompletedAndApproved(disk, "editing")
    /\ \E s \in {"ingestion", "editing"} : disk.stages[s].gate_notes # "null"

====
